---- MODULE Spec2Model ----
(***************************************************************************)
(* Model of GCPKubernetesClusterReconciler.Reconcile                       *)
(* (cmd/cloudcontroller/pkg/controllers/gcpkubernetesclusterreconciler.go). *)
(*                                                                         *)
(* One pass of Reconcile per resource identifier.  Every call Reconcile    *)
(* makes on a collaborator (resource store, cloud client, event recorder)  *)
(* is one step, so that the cancellation of the context, the ticker and    *)
(* the provider can interleave with it.  The calls a pass has issued are   *)
(* kept in the history variables creates, events, updates and queries.     *)
(***************************************************************************)
EXTENDS Integers, Sequences, FiniteSets, TLC

\* ------------------------------------------------------------------ bounds
MaxTicks == 2
MaxInvocations == 2

\* --------------------------------------------------------------- constants
RequeueSeconds == 60

\* Resource identifiers (req.NamespacedName); pass p reconciles identifier p.
Ids == {1, 2}

\* benzaiten.ClusterStatus values (api/v1).
ClusterStatusUnspecified == "STATUS_UNSPECIFIED"
ClusterStatusProvisioning == "PROVISIONING"
ClusterStatusRunning == "RUNNING"
ClusterStatusDegraded == "DEGRADED"
ClusterStatusError == "ERROR"

\* container.Cluster.Status as the provider reports it.
ProviderStatuses ==
    {ClusterStatusUnspecified, ClusterStatusProvisioning, ClusterStatusRunning,
     ClusterStatusDegraded, ClusterStatusError, "RECONCILING"}

Zones == {"us-central1-a", "europe-west1-b"}
NodeCounts == {1, 3}
ClusterNameOf(i) == IF i = 1 THEN "demo" ELSE "other"

\* ------------------------------------------------------------------ errors
\* An error value is named by an identifier; ErrText is its Error() text,
\* a sequence of characters.
Err404Text ==
    <<"g", ":", " ", "E", "r", "r", "o", "r", " ", "4", "0", "4", ":", " ", "n", "f">>
Err404ShortText ==
    <<"g", ":", " ", "E", "r", "r", "o", "r", " ", "4", "0", "4">>
Err403Text ==
    <<"g", ":", " ", "E", "r", "r", "o", "r", " ", "4", "0", "3", ":", " ", "n", "o">>
Err404LateText ==
    <<"r", "p", "c", ":", " ", "g", ":", " ", "E", "r", "r", "o", "r", " ", "4", "0", "4">>
Err404TightText ==
    <<"g", ":", "E", "r", "r", "o", "r", " ", "4", "0", "4", ":", " ", "n", "f">>
ErrTimeoutText ==
    <<"t", "i", "m", "e", "o", "u", "t">>

ProviderErrs == {"e404", "e404short", "e403", "e404late", "e404tight", "etimeout"}

ErrText(e) ==
    CASE e = "e404" -> Err404Text
      [] e = "e404short" -> Err404ShortText
      [] e = "e403" -> Err403Text
      [] e = "e404late" -> Err404LateText
      [] e = "e404tight" -> Err404TightText
      [] e = "etimeout" -> ErrTimeoutText

\* strings.Split(s, sep) for a one-character separator.
RECURSIVE SplitAcc(_, _, _, _)
SplitAcc(s, sep, i, cur) ==
    IF i > Len(s) THEN <<cur>>
    ELSE IF s[i] = sep THEN <<cur>> \o SplitAcc(s, sep, i + 1, <<>>)
    ELSE SplitAcc(s, sep, i + 1, Append(cur, s[i]))

Split(s, sep) == SplitAcc(s, sep, 1, <<>>)

NotFoundSegment == <<" ", "E", "r", "r", "o", "r", " ", "4", "0", "4">>

\* notFoundGCPResource indexes element [1] of the split (the second one):
\* the index is out of range, and the call panics, when there is no colon.
NotFoundPanics(e) == Len(Split(ErrText(e), ":")) < 2

NotFoundGCPResource_any(e) ==
    \E k \in 1..Len(Split(ErrText(e), ":")) : Split(ErrText(e), ":")[k] = NotFoundSegment
NotFoundGCPResource(e) == Split(ErrText(e), ":")[2] = NotFoundSegment

\* ------------------------------------------------------------------- state
VARIABLES
    active,     \* the passes that run
    store,      \* resource store: identifier -> resource (spec and status)
    cloud,      \* provider: identifier's cluster -> "absent" or its status
    pc,         \* position of each pass in Reconcile
    inv,        \* number of the current invocation of each pass
    phaseAtStart, \* the stored phase the invocation read at line 39
    cancelled,  \* ctx.Done() of the invocation is closed
    cancelAt,   \* where the pass stood when its context was cancelled
    tick,       \* ticker.C holds a tick
    ticks,      \* ticks the poll loop has taken from ticker.C
    gkcCR,      \* the pass's copy of the resource
    initErr,    \* err of the GetCluster call of line 48
    gkcCreated, \* status of the cluster the last GetCluster returned (gkc, gkcCreated)
    creates,    \* CreateCluster calls issued
    events,     \* notifications emitted
    updates,    \* Status().Update calls issued
    queries,    \* GetCluster calls issued
    result      \* what Reconcile returned

envVars == <<active, store, cloud>>
ctlVars == <<pc, inv, phaseAtStart, cancelled, cancelAt, tick, ticks>>
locVars == <<gkcCR, initErr, gkcCreated>>
histVars == <<creates, events, updates, queries>>
vars == <<active, store, cloud, pc, inv, phaseAtStart, cancelled, cancelAt, tick, ticks,
          gkcCR, initErr, gkcCreated, creates, events, updates, queries, result>>

NoResource == [zone |-> "", clusterName |-> "", initialNodeCount |-> 0, phase |-> ""]
NoResult == [state |-> "running", err |-> "nil", requeueAfter |-> 0]

LoopPcs == {"wait", "pollGet", "evProvisioning", "updTick",
            "evRunning", "updRunning", "evNotRunning", "updError"}

InitPass(a) ==
    /\ active = a
    /\ store \in [Ids -> [present : BOOLEAN, zone : Zones, clusterName : {"demo", "other"},
                          initialNodeCount : NodeCounts, phase : {""}]]
    /\ \A i \in Ids : store[i].clusterName = ClusterNameOf(i)
    /\ \A i \in Ids \ a : store[i] = [present |-> FALSE, zone |-> "us-central1-a",
                                      clusterName |-> ClusterNameOf(i),
                                      initialNodeCount |-> 1, phase |-> ""]
    /\ cloud \in [Ids -> {"absent"} \cup ProviderStatuses]
    /\ \A i \in Ids \ a : cloud[i] = "absent"
    /\ pc = [p \in Ids |-> IF p \in a THEN "start" ELSE "done"]
    /\ inv = [p \in Ids |-> 1]
    /\ phaseAtStart = [p \in Ids |-> "none"]
    /\ cancelled = [p \in Ids |-> FALSE]
    /\ cancelAt = [p \in Ids |-> "none"]
    /\ tick = [p \in Ids |-> FALSE]
    /\ ticks = [p \in Ids |-> 0]
    /\ gkcCR = [p \in Ids |-> NoResource]
    /\ initErr = [p \in Ids |-> "unset"]
    /\ gkcCreated = [p \in Ids |-> "none"]
    /\ creates = [p \in Ids |-> <<>>]
    /\ events = [p \in Ids |-> <<>>]
    /\ updates = [p \in Ids |-> <<>>]
    /\ queries = [p \in Ids |-> 0]
    /\ result = [p \in Ids |-> NoResult]

Init == InitPass({1})

\* ----------------------------------------------------------------- helpers
\* return ctrl.Result{RequeueAfter: rq}, e
Return(p, e, rq) ==
    /\ result' = [result EXCEPT ![p] = [state |-> "returned", err |-> e, requeueAfter |-> rq]]
    /\ pc' = [pc EXCEPT ![p] = "done"]

\* cr.eventRecorder.Event(&gkcCR, kind, reason, ...)
Emit_quietTick(p, kind, reason) ==
    events' = IF reason = "ClusterProvisioning" THEN events
              ELSE [events EXCEPT ![p] =
                      Append(@, [kind |-> kind, reason |-> reason, tick |-> ticks[p]])]
Emit(p, kind, reason) ==
    events' = [events EXCEPT ![p] = Append(@, [kind |-> kind, reason |-> reason, tick |-> ticks[p]])]

\* updateStatus: cluster.Status = {Phase: cs} on the pass's copy.
UpdateStatusLocal(p, cs) ==
    gkcCR' = [gkcCR EXCEPT ![p].phase = cs]

\* What cloud.GCP.GetCluster can answer for the cluster of identifier i.
GetClusterOutcomes(i) ==
    {[err |-> e, status |-> "none"] : e \in ProviderErrs}
    \cup (IF cloud[i] = "absent" THEN {} ELSE {[err |-> "nil", status |-> cloud[i]]})


\* cr.Status().Update(ctx, &gkcCR): the call is issued and either writes the
\* copy's status to the store or fails.
StatusUpdate_shared(p, ok) ==
    /\ updates' = [updates EXCEPT ![p] =
                     Append(@, [phase |-> gkcCR[p].phase, ok |-> ok, tick |-> ticks[p]])]
    /\ store' = IF ok THEN [i \in Ids |-> [store[i] EXCEPT !.phase = gkcCR[p].phase]]
                ELSE store
StatusUpdate(p, ok) ==
    /\ updates' = [updates EXCEPT ![p] =
                     Append(@, [phase |-> gkcCR[p].phase, ok |-> ok, tick |-> ticks[p]])]
    /\ store' = IF ok THEN [store EXCEPT ![p].phase = gkcCR[p].phase] ELSE store

\* Lines 40-46: what Reconcile returns when cr.Get fails.
GetErrorResult_surface(notFound, e) == e
GetErrorResult(notFound, e) == IF notFound THEN "nil" ELSE e

\* Lines 52-55: the arguments of the create call.
CreateArgs_zero(p) ==
    [zone |-> gkcCR[p].zone, name |-> gkcCR[p].clusterName, initialNodeCount |-> 0]
CreateArgs(p) ==
    [zone |-> gkcCR[p].zone, name |-> gkcCR[p].clusterName,
     initialNodeCount |-> gkcCR[p].initialNodeCount]

\* Line 120: gkc.Status is overwritten before it is used as the phase.
DetectedStatus_inspect(s) == s
DetectedStatus(s) == ClusterStatusRunning

\* Lines 87 and 97: where a tick goes after its provisioning update.
AfterTick_lax(st) ==
    IF st = ClusterStatusRunning THEN "evRunning"
    ELSE IF st \in {ClusterStatusError, ClusterStatusUnspecified} THEN "evNotRunning"
    ELSE "wait"
AfterTick_eager(st) ==
    IF st = ClusterStatusRunning THEN "evRunning" ELSE "evNotRunning"
AfterTick(st) ==
    IF st = ClusterStatusRunning THEN "evRunning"
    ELSE IF st \in {ClusterStatusError, ClusterStatusDegraded, ClusterStatusUnspecified}
         THEN "evNotRunning"
    ELSE "wait"

\* Lines 79-82: a tick whose query succeeded always notifies and persists
\* Provisioning first, whatever the status it saw.
AfterPoll_skip(st) ==
    IF st = ClusterStatusRunning
       \/ st \in {ClusterStatusError, ClusterStatusDegraded, ClusterStatusUnspecified}
    THEN AfterTick(st)
    ELSE "evProvisioning"
AfterPoll(st) == "evProvisioning"

\* Line 100: the phase recorded for a cluster that is not running.
NotRunningPhase_verbatim(st) == st
NotRunningPhase_degraded(st) ==
    IF st = ClusterStatusDegraded THEN ClusterStatusDegraded ELSE ClusterStatusError
NotRunningPhase(st) == ClusterStatusError

\* Lines 96 and 106: the requeue directive after the poll loop ended.
CreatedRequeue_again == RequeueSeconds
CreatedRequeue == 0

\* Line 133: the requeue directive after the cluster was found.
DetectedRequeue_none == CreatedRequeue
DetectedRequeue == RequeueSeconds

\* ----------------------------------------------------------------- actions
\* Lines 38-46: cr.Get.  The store answers NotFound for an identifier it does
\* not hold; reading a resource it holds succeeds or fails with another error.
GetResource(p) ==
    /\ pc[p] = "start"
    /\ \/ /\ ~store[p].present
          /\ Return(p, GetErrorResult(TRUE, "estoreNotFound"), 0)
          /\ UNCHANGED <<gkcCR, phaseAtStart>>
       \/ /\ store[p].present
          /\ Return(p, GetErrorResult(FALSE, "estore"), 0)
          /\ UNCHANGED <<gkcCR, phaseAtStart>>
       \/ /\ store[p].present
          /\ gkcCR' = [gkcCR EXCEPT ![p] =
                         [zone |-> store[p].zone, clusterName |-> store[p].clusterName,
                          initialNodeCount |-> store[p].initialNodeCount,
                          phase |-> store[p].phase]]
          /\ phaseAtStart' = [phaseAtStart EXCEPT ![p] = store[p].phase]
          /\ pc' = [pc EXCEPT ![p] = "getCluster"]
          /\ UNCHANGED result
    /\ UNCHANGED <<envVars, inv, cancelled, cancelAt, tick, ticks, initErr, gkcCreated, histVars>>

\* Lines 48-51 and 114-117: the first GetCluster and the branch on its error.
InitialGetCluster(p) ==
    /\ pc[p] = "getCluster"
    /\ queries' = [queries EXCEPT ![p] = @ + 1]
    /\ \E o \in GetClusterOutcomes(p) :
         /\ initErr' = [initErr EXCEPT ![p] = o.err]
         /\ IF o.err = "nil"
            THEN /\ gkcCreated' = [gkcCreated EXCEPT ![p] = o.status]
                 /\ pc' = [pc EXCEPT ![p] = "evDetection"]
                 /\ UNCHANGED result
            ELSE /\ UNCHANGED gkcCreated
                 /\ IF NotFoundPanics(o.err)
                    THEN /\ result' = [result EXCEPT ![p] =
                                         [state |-> "panicked", err |-> o.err, requeueAfter |-> 0]]
                         /\ pc' = [pc EXCEPT ![p] = "done"]
                    ELSE IF NotFoundGCPResource(o.err)
                    THEN /\ pc' = [pc EXCEPT ![p] = "create"]
                         /\ UNCHANGED result
                    ELSE Return(p, o.err, 0)
    /\ UNCHANGED <<envVars, inv, phaseAtStart, cancelled, cancelAt, tick, ticks, gkcCR, creates, events, updates>>

\* Lines 56-59: an error of the create call ends the pass.
CreateErrorAborts_ignore(e) == FALSE
CreateErrorAborts(e) == TRUE

\* Lines 52-59: CreateCluster.  The provider creates a cluster that does not
\* exist yet, or answers with an error.
CreateCluster(p) ==
    /\ pc[p] = "create"
    /\ creates' = [creates EXCEPT ![p] = Append(@, CreateArgs(p))]
    /\ \/ /\ cloud[p] = "absent"
          /\ cloud' = [cloud EXCEPT ![p] = ClusterStatusProvisioning]
          /\ pc' = [pc EXCEPT ![p] = "evCreation"]
          /\ UNCHANGED result
       \/ /\ \E e \in ProviderErrs :
                IF CreateErrorAborts(e)
                THEN Return(p, e, 0)
                ELSE /\ pc' = [pc EXCEPT ![p] = "evCreation"]
                     /\ UNCHANGED result
          /\ UNCHANGED cloud
    /\ UNCHANGED <<active, store, inv, phaseAtStart, cancelled, cancelAt, tick, ticks, locVars, events, updates, queries>>

\* Lines 61-62.
EventCreation(p) ==
    /\ pc[p] = "evCreation"
    /\ Emit(p, "Normal", "ClusterCreation")
    /\ UpdateStatusLocal(p, ClusterStatusProvisioning)
    /\ pc' = [pc EXCEPT ![p] = "updCreation"]
    /\ UNCHANGED <<envVars, inv, phaseAtStart, cancelled, cancelAt, tick, ticks, initErr, gkcCreated,
                   creates, updates, queries, result>>

\* Lines 63-70: the status update after the create call; the ticker starts.
UpdateCreation(p) ==
    /\ pc[p] = "updCreation"
    /\ \E ok \in BOOLEAN :
         /\ StatusUpdate(p, ok)
         /\ IF ok
            THEN /\ pc' = [pc EXCEPT ![p] = "wait"]
                 /\ UNCHANGED result
            ELSE Return(p, "eupdate", 0)
    /\ UNCHANGED <<active, cloud, inv, phaseAtStart, cancelled, cancelAt, tick, ticks, locVars, creates, events, queries>>

\* time.NewTicker(3 * time.Second): a tick arrives on ticker.C, which holds
\* at most one.
TickerFire(p) ==
    /\ pc[p] \in LoopPcs
    /\ ~tick[p]
    /\ ticks[p] < MaxTicks
    /\ tick' = [tick EXCEPT ![p] = TRUE]
    /\ UNCHANGED <<envVars, pc, inv, phaseAtStart, cancelled, cancelAt, ticks, locVars, histVars, result>>

\* Lines 72-73: select takes the tick.
SelectTick(p) ==
    /\ pc[p] = "wait"
    /\ tick[p]
    /\ tick' = [tick EXCEPT ![p] = FALSE]
    /\ ticks' = [ticks EXCEPT ![p] = @ + 1]
    /\ pc' = [pc EXCEPT ![p] = "pollGet"]
    /\ UNCHANGED <<envVars, inv, phaseAtStart, cancelled, cancelAt, locVars, histVars, result>>

\* Lines 108-109: select takes ctx.Done().
SelectDone(p) ==
    /\ pc[p] = "wait"
    /\ cancelled[p]
    /\ Return(p, "ecanceled", 0)
    /\ UNCHANGED <<envVars, inv, phaseAtStart, cancelled, cancelAt, tick, ticks, locVars, histVars>>

\* Lines 75-78: any error of the poll loop's GetCluster ends the pass.
PollErrorAborts_retry(e) == NotFoundPanics(e) \/ ~NotFoundGCPResource(e)
PollErrorAborts(e) == TRUE

\* Lines 74-78: the poll loop's GetCluster.
PollGetCluster(p) ==
    /\ pc[p] = "pollGet"
    /\ queries' = [queries EXCEPT ![p] = @ + 1]
    /\ \E o \in GetClusterOutcomes(p) :
         IF o.err = "nil"
         THEN /\ gkcCreated' = [gkcCreated EXCEPT ![p] = o.status]
              /\ pc' = [pc EXCEPT ![p] = AfterPoll(o.status)]
              /\ UNCHANGED result
         ELSE /\ gkcCreated' = [gkcCreated EXCEPT ![p] = "none"]
              /\ IF PollErrorAborts(o.err)
                 THEN Return(p, o.err, 0)
                 ELSE /\ pc' = [pc EXCEPT ![p] = "wait"]
                      /\ UNCHANGED result
    /\ UNCHANGED <<envVars, inv, phaseAtStart, cancelled, cancelAt, tick, ticks, gkcCR, initErr, creates, events, updates>>

\* Lines 80-81.
EventProvisioning(p) ==
    /\ pc[p] = "evProvisioning"
    /\ Emit(p, "Normal", "ClusterProvisioning")
    /\ UpdateStatusLocal(p, ClusterStatusProvisioning)
    /\ pc' = [pc EXCEPT ![p] = "updTick"]
    /\ UNCHANGED <<envVars, inv, phaseAtStart, cancelled, cancelAt, tick, ticks, initErr, gkcCreated,
                   creates, updates, queries, result>>

\* Lines 83-86: a failed status update of the tick ends the pass.
TickUpdateAborts_ignore(ok) == FALSE
TickUpdateAborts(ok) == ~ok

\* Lines 82-87 and 97: the tick's status update and the branch on the status.
UpdateTick(p) ==
    /\ pc[p] = "updTick"
    /\ \E ok \in BOOLEAN :
         /\ StatusUpdate(p, ok)
         /\ IF ~TickUpdateAborts(ok)
            THEN /\ pc' = [pc EXCEPT ![p] = AfterTick(gkcCreated[p])]
                 /\ UNCHANGED result
            ELSE Return(p, "eupdate", 0)
    /\ UNCHANGED <<active, cloud, inv, phaseAtStart, cancelled, cancelAt, tick, ticks, locVars, creates, events, queries>>

\* Lines 89-90.
EventRunning(p) ==
    /\ pc[p] = "evRunning"
    /\ Emit(p, "Normal", "ClusterRunning")
    /\ UpdateStatusLocal(p, ClusterStatusRunning)
    /\ pc' = [pc EXCEPT ![p] = "updRunning"]
    /\ UNCHANGED <<envVars, inv, phaseAtStart, cancelled, cancelAt, tick, ticks, initErr, gkcCreated,
                   creates, updates, queries, result>>

\* Line 96: the loop ends once Running is persisted.
RunningEndsLoop_fallthrough == FALSE
RunningEndsLoop == TRUE

\* Lines 91-96.
UpdateRunning(p) ==
    /\ pc[p] = "updRunning"
    /\ \E ok \in BOOLEAN :
         /\ StatusUpdate(p, ok)
         /\ IF ~ok THEN Return(p, "eupdate", 0)
            ELSE IF RunningEndsLoop THEN Return(p, "nil", CreatedRequeue)
            ELSE /\ pc' = [pc EXCEPT ![p] = "wait"]
                 /\ UNCHANGED result
    /\ UNCHANGED <<active, cloud, inv, phaseAtStart, cancelled, cancelAt, tick, ticks, locVars, creates, events, queries>>

\* Lines 99-100.
EventNotRunning(p) ==
    /\ pc[p] = "evNotRunning"
    /\ Emit(p, "Warning", "ClusterNotRunning")
    /\ UpdateStatusLocal(p, NotRunningPhase(gkcCreated[p]))
    /\ pc' = [pc EXCEPT ![p] = "updError"]
    /\ UNCHANGED <<envVars, inv, phaseAtStart, cancelled, cancelAt, tick, ticks, initErr, gkcCreated,
                   creates, updates, queries, result>>

\* Lines 101-106.
UpdateError(p) ==
    /\ pc[p] = "updError"
    /\ \E ok \in BOOLEAN :
         /\ StatusUpdate(p, ok)
         /\ IF ok THEN Return(p, "nil", CreatedRequeue) ELSE Return(p, "eupdate", 0)
    /\ UNCHANGED <<active, cloud, inv, phaseAtStart, cancelled, cancelAt, tick, ticks, locVars, creates, events, queries>>

\* Lines 119-122.
EventDetection(p) ==
    /\ pc[p] = "evDetection"
    /\ Emit(p, "Normal", "ClusterDetection")
    /\ UpdateStatusLocal(p, DetectedStatus(gkcCreated[p]))
    /\ pc' = [pc EXCEPT ![p] = "updDetection"]
    /\ UNCHANGED <<envVars, inv, phaseAtStart, cancelled, cancelAt, tick, ticks, initErr, gkcCreated,
                   creates, updates, queries, result>>

\* Lines 123-133.
UpdateDetection(p) ==
    /\ pc[p] = "updDetection"
    /\ \E ok \in BOOLEAN :
         /\ StatusUpdate(p, ok)
         /\ IF ok THEN Return(p, "nil", DetectedRequeue) ELSE Return(p, "eupdate", 0)
    /\ UNCHANGED <<active, cloud, inv, phaseAtStart, cancelled, cancelAt, tick, ticks, locVars, creates, events, queries>>

\* The invocation's context is cancelled (deadline, shutdown).
Cancel(p) ==
    /\ pc[p] # "done"
    /\ ~cancelled[p]
    /\ cancelled' = [cancelled EXCEPT ![p] = TRUE]
    /\ cancelAt' = [cancelAt EXCEPT ![p] = pc[p]]
    /\ UNCHANGED <<envVars, pc, inv, phaseAtStart, tick, ticks, locVars, histVars, result>>

\* The provider moves an existing cluster to another status.
ProviderChange(i) ==
    /\ cloud[i] # "absent"
    /\ pc[i] # "done"
    /\ \E s \in ProviderStatuses \ {cloud[i]} : cloud' = [cloud EXCEPT ![i] = s]
    /\ UNCHANGED <<active, store, ctlVars, locVars, histVars, result>>

\* The caller invokes Reconcile again for the same identifier, with a fresh
\* context, copy and ticker.
Reinvoke(p) ==
    /\ pc[p] = "done"
    /\ inv[p] < MaxInvocations
    /\ inv' = [inv EXCEPT ![p] = @ + 1]
    /\ phaseAtStart' = [phaseAtStart EXCEPT ![p] = "none"]
    /\ pc' = [pc EXCEPT ![p] = "start"]
    /\ cancelled' = [cancelled EXCEPT ![p] = FALSE]
    /\ cancelAt' = [cancelAt EXCEPT ![p] = "none"]
    /\ tick' = [tick EXCEPT ![p] = FALSE]
    /\ ticks' = [ticks EXCEPT ![p] = 0]
    /\ gkcCR' = [gkcCR EXCEPT ![p] = NoResource]
    /\ initErr' = [initErr EXCEPT ![p] = "unset"]
    /\ gkcCreated' = [gkcCreated EXCEPT ![p] = "none"]
    /\ creates' = [creates EXCEPT ![p] = <<>>]
    /\ events' = [events EXCEPT ![p] = <<>>]
    /\ updates' = [updates EXCEPT ![p] = <<>>]
    /\ queries' = [queries EXCEPT ![p] = 0]
    /\ result' = [result EXCEPT ![p] = NoResult]
    /\ UNCHANGED envVars

Next ==
    \E p \in active :
        \/ GetResource(p)
        \/ InitialGetCluster(p)
        \/ CreateCluster(p)
        \/ EventCreation(p)
        \/ UpdateCreation(p)
        \/ TickerFire(p)
        \/ SelectTick(p)
        \/ SelectDone(p)
        \/ PollGetCluster(p)
        \/ EventProvisioning(p)
        \/ UpdateTick(p)
        \/ EventRunning(p)
        \/ UpdateRunning(p)
        \/ EventNotRunning(p)
        \/ UpdateError(p)
        \/ EventDetection(p)
        \/ UpdateDetection(p)
        \/ Cancel(p)
        \/ ProviderChange(p)
        \/ Reinvoke(p)

Spec == Init /\ [][Next]_vars

\* The steps of Reconcile itself: the goroutine of a pass keeps running and
\* the calls it makes on its collaborators return.
PassStep(p) ==
    \/ GetResource(p) \/ InitialGetCluster(p) \/ CreateCluster(p)
    \/ EventCreation(p) \/ UpdateCreation(p)
    \/ SelectTick(p) \/ SelectDone(p) \/ PollGetCluster(p)
    \/ EventProvisioning(p) \/ UpdateTick(p)
    \/ EventRunning(p) \/ UpdateRunning(p)
    \/ EventNotRunning(p) \/ UpdateError(p)
    \/ EventDetection(p) \/ UpdateDetection(p)

\* Fair scheduling: a pass that can take a step takes one, the ticker keeps
\* ticking, and a select that finds ctx.Done() ready again and again takes
\* that case in the end (the choice among ready cases is uniformly random).
Fairness ==
    \A p \in Ids :
        /\ WF_vars(PassStep(p))
        /\ WF_vars(TickerFire(p))
        /\ SF_vars(SelectDone(p))

LiveSpec == Init /\ [][Next]_vars /\ Fairness

TypeOK ==
    /\ active \subseteq Ids
    /\ \A p \in Ids :
        /\ pc[p] \in {"start", "getCluster", "create", "evCreation", "updCreation",
                      "evDetection", "updDetection", "done"} \cup LoopPcs
        /\ inv[p] \in 1..MaxInvocations
        /\ phaseAtStart[p] \in {"none", "", ClusterStatusProvisioning, ClusterStatusRunning,
                                 ClusterStatusError}
        /\ ticks[p] \in 0..MaxTicks
        /\ queries[p] \in 0..(MaxTicks + 1)
        /\ cloud[p] \in {"absent"} \cup ProviderStatuses
        /\ result[p].state \in {"running", "returned", "panicked"}
        /\ cancelled[p] <=> cancelAt[p] # "none"


\* ------------------------------------------------------------------ claims
\* Errors whose text, cut at the colons, has " Error 404" as its second piece.
NotFoundShaped == {"e404", "e404short"}

ErrorStatuses == {ClusterStatusError, ClusterStatusDegraded, ClusterStatusUnspecified}
TerminalStatuses == {ClusterStatusRunning} \cup ErrorStatuses

Returned(p) == pc[p] = "done" /\ result[p].state = "returned"
CreationPath(p) == creates[p] # <<>>
Phases(p) == [k \in 1..Len(updates[p]) |-> updates[p][k].phase]
Reasons(p) == [k \in 1..Len(events[p]) |-> <<events[p][k].reason, events[p][k].kind>>]
AllUpdatesOk(p) == \A k \in 1..Len(updates[p]) : updates[p][k].ok
UpdatesOfTick(p, t) == {k \in 1..Len(updates[p]) : updates[p][k].tick = t}
UpdatesOfPhase(p, ph) == {k \in 1..Len(updates[p]) : updates[p][k].phase = ph}
EventsOfKind(p, kind) == {k \in 1..Len(events[p]) : events[p][k].kind = kind}
ResourceArgs(p) ==
    [zone |-> store[p].zone, name |-> store[p].clusterName,
     initialNodeCount |-> store[p].initialNodeCount]

\* C1: once the first GetCluster has reported not-found for a stored resource,
\* the pass has issued no create call while it stands before the call and
\* exactly one, with the resource's zone, clusterName and initialNodeCount,
\* from then on, whatever number of ticks follows; no pass ever issues two.
C1_ExactlyOneCreate ==
    \A p \in active :
        /\ Len(creates[p]) <= 1
        /\ initErr[p] \in NotFoundShaped =>
             IF pc[p] = "create" THEN creates[p] = <<>>
             ELSE creates[p] = <<ResourceArgs(p)>>

C1_Witness ==
    \E p \in active :
        /\ Returned(p) /\ initErr[p] \in NotFoundShaped
        /\ ticks[p] >= 2 /\ creates[p] = <<ResourceArgs(p)>>
        /\ store[p].initialNodeCount = 3

\* C2: for an identifier the store does not hold, a pass issues no status
\* update, no notification, no GetCluster and no CreateCluster, what it
\* returns is no error and no requeue, and its step changes neither the store
\* nor the provider.
C2_AbsentResourceNoop ==
    /\ [](\A p \in active : ~store[p].present =>
            /\ updates[p] = <<>> /\ events[p] = <<>>
            /\ queries[p] = 0 /\ creates[p] = <<>>
            /\ pc[p] \in {"start", "done"}
            /\ pc[p] = "done" =>
                 result[p] = [state |-> "returned", err |-> "nil", requeueAfter |-> 0])
    /\ [][\A p \in active :
            (~store[p].present /\ pc[p] = "start" /\ pc'[p] = "done") =>
                (store' = store /\ cloud' = cloud)]_vars

C2_Witness ==
    \E p \in active : ~store[p].present /\ Returned(p) /\ cloud[p] # "absent"

\* C3: when the first GetCluster succeeds, the pass issues no create call and
\* never reaches the poll loop, and at its end it has issued exactly one status
\* update, of phase Running, after exactly one notification, Normal
\* ClusterDetection, whatever status the provider reported.
C3_DetectionForcesRunning ==
    \A p \in active : initErr[p] = "nil" =>
        /\ creates[p] = <<>> /\ pc[p] \notin LoopPcs /\ ticks[p] = 0 /\ queries[p] = 1
        /\ pc[p] \in {"evDetection", "updDetection", "done"}
        /\ pc[p] = "evDetection" => (events[p] = <<>> /\ updates[p] = <<>>)
        /\ pc[p] # "evDetection" => Reasons(p) = << <<"ClusterDetection", "Normal">> >>
        /\ pc[p] = "updDetection" => updates[p] = <<>>
        /\ pc[p] = "done" => Phases(p) = <<ClusterStatusRunning>>
        /\ (pc[p] = "done" /\ updates[p][1].ok) => store[p].phase = ClusterStatusRunning

C3_Witness ==
    \E p \in active :
        /\ Returned(p) /\ initErr[p] = "nil" /\ gkcCreated[p] = ClusterStatusError
        /\ cloud[p] = ClusterStatusError /\ store[p].phase = ClusterStatusRunning

\* C4: what Reconcile returns carries a requeue of 60 seconds exactly when the
\* first GetCluster found the cluster and the update of phase Running
\* succeeded; every other return carries none.
C4_RequeueIffDetected ==
    \A p \in active : Returned(p) =>
        /\ result[p].requeueAfter \in {0, RequeueSeconds}
        /\ result[p].requeueAfter = RequeueSeconds <=>
             /\ initErr[p] = "nil"
             /\ updates[p] = <<[phase |-> ClusterStatusRunning, ok |-> TRUE, tick |-> 0]>>
        /\ result[p].requeueAfter = RequeueSeconds => result[p].err = "nil"

C4_Witness ==
    \E p \in active : Returned(p) /\ result[p].requeueAfter = RequeueSeconds

\* C5: when Reconcile returns no error after a create call, the status seen on
\* the last tick is Running and the last phase persisted is Running, or it is
\* Error, Degraded or Unspecified and the last phase persisted is Error; as
\* long as the last status seen in the loop is any other one, the last phase
\* persisted is Provisioning.
C5_FinalPhaseMapping ==
    \A p \in active : CreationPath(p) =>
        /\ (Returned(p) /\ result[p].err = "nil") =>
             /\ updates[p] # <<>>
             /\ updates[p][Len(updates[p])].tick = ticks[p]
             /\ \/ /\ gkcCreated[p] = ClusterStatusRunning
                   /\ updates[p][Len(updates[p])].phase = ClusterStatusRunning
                   /\ store[p].phase = ClusterStatusRunning
                \/ /\ gkcCreated[p] \in ErrorStatuses
                   /\ updates[p][Len(updates[p])].phase = ClusterStatusError
                   /\ store[p].phase = ClusterStatusError
        /\ (gkcCreated[p] \in ProviderStatuses \ TerminalStatuses /\ updates[p] # <<>>) =>
             /\ updates[p][Len(updates[p])].phase = ClusterStatusProvisioning
             /\ ~(Returned(p) /\ result[p].err = "nil")

C5_Witness ==
    \E p \in active :
        /\ CreationPath(p) /\ Returned(p) /\ result[p].err = "nil"
        /\ gkcCreated[p] = ClusterStatusDegraded
        /\ store[p].phase = ClusterStatusError


\* A tick of the poll loop whose GetCluster succeeded and whose handling is
\* over: the loop went on to wait again, or Reconcile returned no error.
TickCompleted(p, t) ==
    /\ t \in 1..ticks[p]
    /\ \/ t < ticks[p]
       \/ pc[p] = "wait"
       \/ Returned(p) /\ result[p].err = "nil"

CreatedAndRunningAtFirstTick(p) ==
    /\ Returned(p) /\ initErr[p] \in NotFoundShaped /\ CreationPath(p)
    /\ AllUpdatesOk(p) /\ ticks[p] = 1 /\ gkcCreated[p] = ClusterStatusRunning

C8_ErrorTickEndsPass ==
    \A p \in active : (CreationPath(p) /\ gkcCreated[p] \in ErrorStatuses /\ AllUpdatesOk(p)) =>
        /\ pc[p] \in {"evProvisioning", "updTick", "evNotRunning", "updError", "done"}
        /\ Cardinality(UpdatesOfPhase(p, ClusterStatusError)) <= 1
        /\ Cardinality(EventsOfKind(p, "Warning")) <= 1
        /\ pc[p] = "done" =>
             /\ result[p] = [state |-> "returned", err |-> "nil", requeueAfter |-> 0]
             /\ UpdatesOfPhase(p, ClusterStatusError) = {Len(updates[p])}
             /\ updates[p][Len(updates[p])].tick = ticks[p]
             /\ EventsOfKind(p, "Warning") = {Len(events[p])}
             /\ events[p][Len(events[p])] =
                  [kind |-> "Warning", reason |-> "ClusterNotRunning", tick |-> ticks[p]]
             /\ UpdatesOfPhase(p, ClusterStatusDegraded) = {}
             /\ UpdatesOfPhase(p, ClusterStatusUnspecified) = {}

C8_Witness ==
    \E p \in active :
        /\ CreationPath(p) /\ Returned(p) /\ AllUpdatesOk(p)
        /\ gkcCreated[p] = ClusterStatusDegraded /\ ticks[p] = 2
        /\ store[p].phase = ClusterStatusError

\* C9: once the context is cancelled while the pass is in the poll loop, the
\* pass issues no further GetCluster, notification or status update and
\* returns the cancellation error, also when a tick and the cancellation are
\* both pending at the same wait: a pass that waits with its context cancelled
\* leaves the wait only by returning the cancellation error, having issued
\* nothing and with the stored phase as it was.
C9_CancelStopsLoop ==
    [][\A p \in active : (cancelAt[p] \in LoopPcs /\ pc[p] = "wait" /\ pc'[p] # "wait") =>
          /\ pc'[p] = "done" /\ result'[p].err = "ecanceled"
          /\ queries'[p] = queries[p] /\ events'[p] = events[p]
          /\ updates'[p] = updates[p] /\ store'[p] = store[p]]_vars

\* C10: a create call is issued, or about to be, only after a first
\* GetCluster error whose text has " Error 404" as its second colon-delimited
\* piece; after any other error the pass issues none.
C10_CreateOnlyAfterNotFound ==
    \A p \in active :
        (CreationPath(p) \/ pc[p] \in {"create", "evCreation", "updCreation"} \cup LoopPcs)
            => initErr[p] \in NotFoundShaped

C10_Witness ==
    \E p \in active :
        /\ pc[p] = "done" /\ initErr[p] \in {"e404late", "e404tight", "e403"}
        /\ creates[p] = <<>> /\ cloud[p] = "absent"

\* C11: after a first GetCluster error that is not a provider not-found,
\* whatever the number of pieces of its text, the pass ends by returning that
\* same error with no requeue, having issued no create call, no notification
\* and no status update and with the stored phase as it was; the
\* classification never aborts the invocation.
C11_OtherErrorSurfaced ==
    \A p \in active :
        (pc[p] = "done" /\ initErr[p] \in ProviderErrs \ NotFoundShaped) =>
            /\ result[p] = [state |-> "returned", err |-> initErr[p], requeueAfter |-> 0]
            /\ creates[p] = <<>> /\ events[p] = <<>> /\ updates[p] = <<>>
            /\ store[p].phase = gkcCR[p].phase

\* A pass that returned because a GetCluster of the poll loop failed.
PollQueryFailed(p) ==
    Returned(p) /\ ticks[p] >= 1 /\ result[p].err \in ProviderErrs

\* C12: a GetCluster error in the poll loop, not-found-shaped or not, ends the
\* pass on that tick with that error: the step issues no notification, no
\* status update and no create call and leaves the store alone, and at the
\* return the tick has no notification and no status update, one create call
\* was issued in all, one query per tick after the first one, and the stored
\* phase is Provisioning.
C12_PollErrorAborts ==
    /\ [](\A p \in active : PollQueryFailed(p) =>
            /\ result[p].requeueAfter = 0
            /\ UpdatesOfTick(p, ticks[p]) = {}
            /\ {k \in 1..Len(events[p]) : events[p][k].tick = ticks[p]} = {}
            /\ Len(creates[p]) = 1
            /\ queries[p] = ticks[p] + 1
            /\ gkcCR[p].phase = ClusterStatusProvisioning
            /\ store[p].phase = ClusterStatusProvisioning)
    /\ [][\A p \in active :
            (pc[p] = "pollGet" /\ pc'[p] # "pollGet" /\ gkcCreated'[p] = "none") =>
                /\ pc'[p] = "done" /\ result'[p].state = "returned"
                /\ result'[p].err \in ProviderErrs
                /\ events'[p] = events[p] /\ updates'[p] = updates[p]
                /\ creates'[p] = creates[p] /\ store' = store /\ ticks' = ticks]_vars

C12_Witness ==
    \E p \in active :
        /\ PollQueryFailed(p) /\ result[p].err = "e404" /\ ticks[p] = 2
        /\ Len(updates[p]) = 2

FailedUpdates(p) == {k \in 1..Len(updates[p]) : ~updates[p][k].ok}

\* C13: a status update that fails, whichever it is (the Provisioning one
\* after the create call, a tick's, the Running or Error one that ends the
\* loop, the Running one after detection), is the last call of the pass: the
\* pass has returned the update's error with no requeue, and no notification,
\* status update or GetCluster follows it.
C13_UpdateFailureAborts ==
    \A p \in active : FailedUpdates(p) # {} =>
        /\ FailedUpdates(p) = {Len(updates[p])}
        /\ pc[p] = "done"
        /\ result[p] = [state |-> "returned", err |-> "eupdate", requeueAfter |-> 0]
        /\ Len(events[p]) = Len(updates[p])
        /\ events[p][Len(events[p])].tick = updates[p][Len(updates[p])].tick
        /\ queries[p] = ticks[p] + 1

C13_Witness ==
    \E p \in active :
        /\ FailedUpdates(p) # {} /\ ticks[p] = 2
        /\ updates[p][Len(updates[p])].phase = ClusterStatusError
        /\ store[p].phase = ClusterStatusProvisioning

\* A pass that returned because its create call failed.
CreateFailed(p) ==
    Returned(p) /\ CreationPath(p) /\ ticks[p] = 0 /\ result[p].err \in ProviderErrs

\* C14: a create call that fails ends the pass with the call's error and no
\* requeue: the step issues no notification and no status update and leaves
\* the store alone, and at the return the pass has emitted nothing, persisted
\* nothing and never waited in the poll loop, the stored phase being the one
\* read at the start of the pass.
C14_CreateErrorAborts ==
    /\ [](\A p \in active : CreateFailed(p) =>
            /\ result[p].requeueAfter = 0
            /\ events[p] = <<>> /\ updates[p] = <<>>
            /\ queries[p] = 1 /\ ~tick[p]
            /\ gkcCR[p].phase # ClusterStatusProvisioning \/ inv[p] > 1
            /\ store[p].phase = gkcCR[p].phase)
    /\ [][\A p \in active :
            (pc[p] = "create" /\ pc'[p] # "create" /\ cloud'[p] = cloud[p]) =>
                /\ pc'[p] = "done" /\ result'[p].state = "returned"
                /\ result'[p].err \in ProviderErrs /\ result'[p].requeueAfter = 0
                /\ events'[p] = events[p] /\ updates'[p] = updates[p]
                /\ store' = store]_vars

C14_Witness ==
    \E p \in active :
        /\ CreateFailed(p) /\ result[p].err = "e403" /\ inv[p] = 1
        /\ store[p].phase = "" /\ cloud[p] = "absent"

\* C15: the status updates of one invocation come in the order of the
\* transitions.  After a create call the first update is the Provisioning one,
\* issued when the create call has succeeded and before any query of the poll
\* loop; every update but the last is a successful Provisioning one; Running
\* or Error comes only as the last update, after at least one Provisioning
\* one, and ends the pass.  A pass that issued no create call issues at most
\* one update.
C15_UpdatesInOrder ==
    \A p \in active :
        /\ ~CreationPath(p) => Len(updates[p]) <= 1
        /\ \A k \in 1..Len(updates[p]) :
             /\ k < Len(updates[p]) =>
                  /\ updates[p][k].phase = ClusterStatusProvisioning /\ updates[p][k].ok
                  /\ updates[p][k].tick <= updates[p][k + 1].tick
             /\ updates[p][k].phase \in {ClusterStatusRunning, ClusterStatusError} =>
                  /\ k = Len(updates[p]) /\ pc[p] = "done"
                  /\ CreationPath(p) => (k >= 2 /\ updates[p][k].tick >= 1)
        /\ (CreationPath(p) /\ updates[p] # <<>>) =>
             /\ updates[p][1].phase = ClusterStatusProvisioning /\ updates[p][1].tick = 0
             /\ cloud[p] # "absent" /\ Len(creates[p]) = 1
        /\ (CreationPath(p) /\ pc[p] \in {"evCreation", "updCreation"}) =>
             (updates[p] = <<>> /\ queries[p] = 1)
        /\ (CreationPath(p) /\ queries[p] > 1) =>
             (updates[p] # <<>> /\ updates[p][1].ok)

C15_Witness ==
    \E p \in active :
        /\ Returned(p) /\ CreationPath(p) /\ ticks[p] = 2
        /\ Phases(p) = <<ClusterStatusProvisioning, ClusterStatusProvisioning,
                         ClusterStatusProvisioning, ClusterStatusError>>

\* The phase persisted for the transition a notification announces.
PhaseOfReason(reason) ==
    CASE reason = "ClusterCreation" -> ClusterStatusProvisioning
      [] reason = "ClusterProvisioning" -> ClusterStatusProvisioning
      [] reason = "ClusterRunning" -> ClusterStatusRunning
      [] reason = "ClusterNotRunning" -> ClusterStatusError
      [] reason = "ClusterDetection" -> ClusterStatusRunning

UpdatePcs == {"updCreation", "updTick", "updRunning", "updError", "updDetection"}

\* C16: notifications and status updates pair one to one.  The k-th update
\* follows the k-th notification, of the same tick and the same transition,
\* failed updates included; the pass has one notification more than updates
\* exactly while it stands between a notification and its update, and none
\* more otherwise, so that at the end of the pass the two numbers are equal.
C16_EventsPairUpdates ==
    \A p \in active :
        /\ Len(events[p]) = Len(updates[p]) + (IF pc[p] \in UpdatePcs THEN 1 ELSE 0)
        /\ \A k \in 1..Len(updates[p]) :
             /\ events[p][k].tick = updates[p][k].tick
             /\ updates[p][k].phase = PhaseOfReason(events[p][k].reason)
        /\ pc[p] \in UpdatePcs =>
             gkcCR[p].phase = PhaseOfReason(events[p][Len(events[p])].reason)
        /\ \A k \in 1..Len(events[p]) :
             events[p][k].kind = (IF events[p][k].reason = "ClusterNotRunning"
                                  THEN "Warning" ELSE "Normal")

C16_Witness ==
    \E p \in active :
        /\ Returned(p) /\ FailedUpdates(p) # {} /\ Len(events[p]) = 3
        /\ Len(updates[p]) = 3 /\ events[p][3].kind = "Warning"

\* C17: a pass in the poll loop leaves it in the end when the provider reports
\* a terminal status from now on (and the ticker has a tick left to give), and
\* when its context is cancelled; and it leaves the loop only on an error, on
\* the cancellation or on a tick that saw a terminal status: as long as the
\* statuses seen are not terminal and nothing fails, it stays, whatever the
\* number of ticks.
C17_LoopTermination ==
    /\ \A p \in Ids :
         []((pc[p] \in LoopPcs /\ ticks[p] < MaxTicks /\ [](cloud[p] \in TerminalStatuses))
               => <>(pc[p] \notin LoopPcs))
    /\ \A p \in Ids :
         []((pc[p] \in LoopPcs /\ cancelled[p]) => <>(pc[p] \notin LoopPcs))
    /\ [][\A p \in Ids : (pc[p] \in LoopPcs /\ pc'[p] \notin LoopPcs) =>
            /\ pc'[p] = "done" /\ result'[p].state = "returned"
            /\ \/ result'[p].err \in ProviderErrs \cup {"eupdate"}
               \/ result'[p].err = "ecanceled" /\ cancelled[p]
               \/ result'[p].err = "nil" /\ gkcCreated[p] \in TerminalStatuses]_vars

C17_Witness ==
    \E p \in active :
        /\ pc[p] = "wait" /\ ticks[p] = MaxTicks /\ ~cancelled[p]
        /\ gkcCreated[p] = "RECONCILING" /\ Len(updates[p]) = MaxTicks + 1

\* Two passes, for two identifiers naming two clusters, with their steps
\* interleaved in every order.  Both resources are stored; the provider moves
\* the first cluster and the second pass can be cancelled.
ConcInit ==
    /\ InitPass(Ids)
    /\ store[1] = [present |-> TRUE, zone |-> "us-central1-a", clusterName |-> "demo",
                   initialNodeCount |-> 3, phase |-> ""]
    /\ store[2] = [present |-> TRUE, zone |-> "europe-west1-b", clusterName |-> "other",
                   initialNodeCount |-> 1, phase |-> ""]
    /\ cloud[1] = "absent"
    /\ cloud[2] \in {"absent", ClusterStatusRunning}

ConcNext ==
    \/ \E p \in active : PassStep(p) \/ TickerFire(p)
    \/ ProviderChange(1)
    \/ Cancel(2)

ConcSpec == ConcInit /\ [][ConcNext]_vars

\* What belongs to pass p and its identifier.
OwnState(p) ==
    <<store[p], cloud[p], pc[p], phaseAtStart[p], cancelled[p], tick[p], ticks[p],
      gkcCR[p], initErr[p],
      gkcCreated[p], creates[p], events[p], updates[p], queries[p], result[p]>>

OkUpdates(p) == {k \in 1..Len(updates[p]) : updates[p][k].ok}

\* C18: two interleaved passes for different identifiers are independent.  A
\* step of one pass leaves alone everything of the other: its resource and
\* stored status, its cluster, its position, its copy, the calls it issued
\* and its result; so each pass sees and does what it would alone.  The
\* status stored for an identifier is the one its own pass last persisted,
\* and each create call names the pass's own cluster.
C18_PassesIndependent ==
    /\ [][\A q \in Ids : pc'[q] # pc[q] =>
            \A p \in Ids \ {q} : OwnState(p)' = OwnState(p)]_vars
    /\ [](\A p \in Ids :
            /\ store[p].phase =
                 (IF OkUpdates(p) = {} THEN ""
                  ELSE updates[p][CHOOSE k \in OkUpdates(p) : \A j \in OkUpdates(p) : j <= k].phase)
            /\ \A k \in 1..Len(creates[p]) : creates[p][k] = ResourceArgs(p)
            /\ creates[p] # <<>> => creates[p][1].name = ClusterNameOf(p))

C18_Witness ==
    /\ Returned(1) /\ Returned(2) /\ CreationPath(1) /\ CreationPath(2)
    /\ store[1].phase = ClusterStatusError /\ result[1].err = "nil"
    /\ store[2].phase = ClusterStatusProvisioning /\ result[2].err = "ecanceled"

PersistedPhases == {ClusterStatusProvisioning, ClusterStatusRunning, ClusterStatusError}

\* C19: every phase Reconcile persists is Provisioning, Running or Error.  Over
\* any sequence of invocations no status update carries Degraded or
\* Unspecified, and the stored phase is never one of them, whatever status the
\* provider reports.
C19_PersistedPhases ==
    \A p \in Ids :
        /\ \A k \in 1..Len(updates[p]) : updates[p][k].phase \in PersistedPhases
        /\ store[p].present => store[p].phase \in {""} \cup PersistedPhases
        /\ store[p].phase \notin {ClusterStatusDegraded, ClusterStatusUnspecified}

\* A creation pass saw the provider report DEGRADED and persisted Error.
C19_Witness ==
    \E p \in Ids :
        /\ Returned(p)
        /\ gkcCreated[p] \in {ClusterStatusDegraded, ClusterStatusUnspecified}
        /\ cloud[p] = gkcCreated[p]
        /\ Len(updates[p]) > 0
        /\ updates[p][Len(updates[p])].ok
        /\ store[p].phase = ClusterStatusError

\* The step that ends a detection pass started on a stored phase Error while
\* the provider reports Error, Degraded or Unspecified for the cluster found.
RedetectsAfterError(p) ==
    /\ pc[p] = "updDetection"
    /\ pc'[p] = "done"
    /\ inv[p] > 1
    /\ phaseAtStart[p] = ClusterStatusError
    /\ cloud[p] \in ErrorStatuses

\* C20 as stated: the invocation that follows a creation pass which persisted
\* Error, and finds the cluster present, leaves the stored phase Running and
\* returns a requeue of 60 seconds, though the provider still reports Error,
\* Degraded or Unspecified.
C20_ErrorOverwritten ==
    [][\A p \in Ids : RedetectsAfterError(p) =>
          /\ store'[p].phase = ClusterStatusRunning
          /\ result'[p].requeueAfter = RequeueSeconds]_vars

\* C20, amended: that invocation issues one status update, of phase Running.
\* When the update succeeds the stored phase becomes Running and the pass
\* returns no error and a requeue of 60 seconds; when it fails the stored phase
\* stays Error and the pass returns the error with no requeue.
C20_ErrorOverwrittenOnSuccess ==
    [][\A p \in Ids : RedetectsAfterError(p) =>
          /\ store[p].phase = ClusterStatusError
          /\ updates[p] = <<>>
          /\ Len(updates'[p]) = 1
          /\ updates'[p][1].phase = ClusterStatusRunning
          /\ result'[p].state = "returned"
          /\ IF updates'[p][1].ok
             THEN /\ store'[p].phase = ClusterStatusRunning
                  /\ result'[p].err = "nil"
                  /\ result'[p].requeueAfter = RequeueSeconds
             ELSE /\ store'[p].phase = ClusterStatusError
                  /\ result'[p].err = "eupdate"
                  /\ result'[p].requeueAfter = 0]_vars

\* A second invocation read phase Error, found the cluster, and left Running
\* stored with a requeue of 60 seconds while the provider reports an error
\* status.
C20_Witness ==
    \E p \in Ids :
        /\ inv[p] > 1
        /\ Returned(p)
        /\ phaseAtStart[p] = ClusterStatusError
        /\ initErr[p] = "nil"
        /\ cloud[p] \in ErrorStatuses
        /\ store[p].phase = ClusterStatusRunning
        /\ result[p].requeueAfter = RequeueSeconds

====
